---- MODULE Spec2Model ----
(***************************************************************************)
(* Model of the soundboard playback manager, frontend/helpers/Player.ts.   *)
(*                                                                         *)
(* The Player keeps a Map `playing` from sample key to PlayingData         *)
(* ({audioElements, analyserNode}).  togglePlay is an async method: it     *)
(* runs synchronously up to `await audio.play()` and resumes in a later    *)
(* turn of the event loop when the host resolves (or rejects) the play     *)
(* promise.  Teardown (handleStop) runs only when the host delivers a      *)
(* `pause` or `ended` event of an audio element, which is a task of its    *)
(* own: Player.stop() merely calls audio.pause().                          *)
(*                                                                         *)
(* The host side that the code relies on (HTMLMediaElement) is modelled    *)
(* per audio element: the paused flag, whether a source is loaded, the     *)
(* state of the play() promise and the queue of pending media element      *)
(* tasks.                                                                  *)
(***************************************************************************)
EXTENDS Integers, Sequences, FiniteSets, TLC

\* Bounds of the model.
MaxInst == 3

\* Sample keys (Sample.key is a string).
Keys == {"a", "b"}

VARIABLES
    playing,                 \* Player.playing: the Map, as its entries in insertion order
    audio,                   \* the HTMLAudioElements still alive, by creation number
    created,                 \* number of HTMLAudioElements created so far
    nodes,                   \* number of AnalyserNodes created so far
    watchProgressRequestId,  \* 0 models null
    rafPending,              \* animation frame callbacks the host still has to run
    dispatching,             \* element whose end-of-playback task has fired `pause`
                             \* and has yet to fire `ended` (0: none)
    emitted,                 \* events dispatched by emit() during the last step
    signal,                  \* the host callback run by the last step ("": none)
    hostCancels,             \* whether the host's load() removes the tasks already
                             \* queued for the element (it never changes)
    observed,                \* observation, recorded by the ...Observed actions
                             \* only: which starting elements had their sample
                             \* asked to stop, which starting call paused which
                             \* element, which elements a rejected call paused
    usePlayerIsPlaying,      \* usePlayer: the isPlaying state of the hook mounted
                             \* for each sample, as set by its event listeners
    returned                 \* what the queries called in the last step returned
                             \* (<< >>: no query was called)

vars == << playing, audio, created, nodes, watchProgressRequestId, rafPending,
           dispatching, emitted, signal, hostCancels,
           observed, usePlayerIsPlaying, returned >>

----------------------------------------------------------------------------
(* The Map `playing`                                                       *)

MapHas(m, k) == \E n \in 1..Len(m) : m[n].key = k

MapIndex(m, k) == CHOOSE n \in 1..Len(m) : m[n].key = k

MapGet(m, k) == m[MapIndex(m, k)]

MapSet(m, k, audioElements, analyserNode) ==
    LET entry == [key |-> k, audioElements |-> audioElements,
                  analyserNode |-> analyserNode]
    IN  IF MapHas(m, k) THEN [m EXCEPT ![MapIndex(m, k)] = entry]
        ELSE Append(m, entry)

MapDelete(m, k) == SelectSeq(m, LAMBDA e : e.key # k)

MapKeys(m) == { m[n].key : n \in 1..Len(m) }

Range(s) == { s[n] : n \in 1..Len(s) }

\* All audio elements held by some PlayingData.
Listed(m) == UNION { Range(m[n].audioElements) : n \in 1..Len(m) }

----------------------------------------------------------------------------
(* Queries                                                                 *)

isPlaying(k) == MapHas(playing, k)

\* A getProgresses that skips the elements already paused.
getProgressesUnpaused(k) ==
    IF MapHas(playing, k)
    THEN SelectSeq(MapGet(playing, k).audioElements,
                   LAMBDA i : ~audio[i].paused)
    ELSE << >>

\* One entry per audio element of the sample; the ratio itself is the
\* host's currentTime / duration and is represented by the element.
getProgresses(k) ==
    IF MapHas(playing, k) THEN MapGet(playing, k).audioElements ELSE << >>

\* 0 models null.
getAnalyserNode(k) ==
    IF MapHas(playing, k) THEN MapGet(playing, k).analyserNode ELSE 0

----------------------------------------------------------------------------
(* Host: HTMLMediaElement                                                  *)

\* A pause() that queues its event even on an element already paused.
HostPauseElementAgain(e) ==
    [e EXCEPT !.paused = TRUE, !.tasks = Append(@, "pause")]

\* audio.pause(): an element that is not paused becomes paused at once and a
\* task that fires `pause` (and rejects a pending play promise) is queued.
HostPauseElement(e) ==
    IF e.paused THEN e
    ELSE [e EXCEPT !.paused = TRUE, !.tasks = Append(@, "pause")]

\* audio.removeAttribute('src'); audio.load(): the load algorithm rejects a
\* pending play promise and leaves the element paused with no source.  It
\* also removes the element's pending tasks, which not every host does.
HostUnload(e) ==
    [e EXCEPT !.src = FALSE, !.paused = TRUE,
              !.tasks = IF hostCancels THEN << >> ELSE @,
              !.promise = IF @ = "pending" THEN "rejected" ELSE @]

\* stop(playingData): pause() on the elements of the given set.
PauseAll(au, S) ==
    [i \in DOMAIN au |-> IF i \in S THEN HostPauseElement(au[i]) ELSE au[i]]

\* An element nothing refers to any more is garbage: its play promise is
\* settled, no PlayingData lists it, the host has no task left for it and is
\* not in the middle of firing its events.
Alive(au, m, d, i) ==
    \/ au[i].promise = "pending"
    \/ i \in Listed(m)
    \/ au[i].tasks # << >>
    \/ d = i

Collect(au, m, d) ==
    [i \in { j \in DOMAIN au : Alive(au, m, d, j) } |-> au[i]]

----------------------------------------------------------------------------
(* A handleStop that emits `ended` whenever it removes an element.         *)
HandleStopEndsEarly(m, au, i, k) ==
    IF ~MapHas(m, k)
    THEN [playing |-> m, audio |-> au, emitted |-> << >>]
    ELSE LET pd   == MapGet(m, k)
             rest == SelectSeq(pd.audioElements, LAMBDA other : other # i)
             au2  == IF i \in DOMAIN au THEN [au EXCEPT ![i] = HostUnload(@)]
                     ELSE au
         IN  [playing |-> IF Len(rest) = 0 THEN MapDelete(m, k)
                          ELSE MapSet(m, k, rest, pd.analyserNode),
              audio |-> au2,
              emitted |-> IF Len(rest) < Len(pd.audioElements)
                          THEN << <<"ended", k>> >> ELSE << >>]

(* A handleStop without the guard against a missing PlayingData: the       *)
(* emptied list is found again and `ended` emitted again.                  *)
HandleStopUnguarded(m, au, i, k) ==
    LET elements == IF MapHas(m, k) THEN MapGet(m, k).audioElements ELSE << >>
        rest == SelectSeq(elements, LAMBDA other : other # i)
        au2  == IF i \in DOMAIN au THEN [au EXCEPT ![i] = HostUnload(@)]
                ELSE au
    IN  IF Len(rest) = 0
        THEN [playing |-> MapDelete(m, k), audio |-> au2,
              emitted |-> << <<"ended", k>> >>]
        ELSE [playing |-> MapSet(m, k, rest, MapGet(m, k).analyserNode),
              audio |-> au2, emitted |-> << >>]

(* A handleStop that ends the whole session with any of its elements.      *)
HandleStopClearsSession(m, au, i, k) ==
    IF ~MapHas(m, k)
    THEN [playing |-> m, audio |-> au, emitted |-> << >>]
    ELSE LET au2 == IF i \in DOMAIN au THEN [au EXCEPT ![i] = HostUnload(@)]
                    ELSE au
         IN  [playing |-> MapDelete(m, k), audio |-> au2,
              emitted |-> << <<"ended", k>> >>]

(* A handleStop that deletes the emptied PlayingData without a word.       *)
HandleStopSilent(m, au, i, k) ==
    IF ~MapHas(m, k)
    THEN [playing |-> m, audio |-> au, emitted |-> << >>]
    ELSE LET pd   == MapGet(m, k)
             rest == SelectSeq(pd.audioElements, LAMBDA other : other # i)
             au2  == IF i \in DOMAIN au THEN [au EXCEPT ![i] = HostUnload(@)]
                     ELSE au
         IN  [playing |-> IF Len(rest) = 0 THEN MapDelete(m, k)
                          ELSE MapSet(m, k, rest, pd.analyserNode),
              audio |-> au2,
              emitted |-> << >>]

(* A handleStop that forgets to delete the emptied PlayingData.            *)
HandleStopKeepsEmpty(m, au, i, k) ==
    IF ~MapHas(m, k)
    THEN [playing |-> m, audio |-> au, emitted |-> << >>]
    ELSE LET pd   == MapGet(m, k)
             rest == SelectSeq(pd.audioElements, LAMBDA other : other # i)
             au2  == IF i \in DOMAIN au THEN [au EXCEPT ![i] = HostUnload(@)]
                     ELSE au
         IN  [playing |-> MapSet(m, k, rest, pd.analyserNode),
              audio |-> au2,
              emitted |-> IF Len(rest) = 0 THEN << <<"ended", k>> >> ELSE << >>]

(* handleStop of the togglePlay call that created audio element i for      *)
(* sample k (the closure captures both), as a function of the state it     *)
(* reads and writes.                                                       *)

HandleStop(m, au, i, k) ==
    IF ~MapHas(m, k)
    THEN [playing |-> m, audio |-> au, emitted |-> << >>]
    ELSE LET pd   == MapGet(m, k)
             rest == SelectSeq(pd.audioElements, LAMBDA other : other # i)
             au2  == IF i \in DOMAIN au THEN [au EXCEPT ![i] = HostUnload(@)]
                     ELSE au
         IN  IF Len(rest) = 0
             THEN [playing |-> MapDelete(m, k), audio |-> au2,
                   emitted |-> << <<"ended", k>> >>]
             ELSE [playing |-> MapSet(m, k, rest, pd.analyserNode),
                   audio |-> au2, emitted |-> << >>]

----------------------------------------------------------------------------
Fresh ==
    /\ playing = << >>
    /\ audio = << >>
    /\ created = 0
    /\ nodes = 0
    /\ watchProgressRequestId = 0
    /\ rafPending = 0
    /\ dispatching = 0
    /\ emitted = << >>
    /\ signal = ""
    /\ observed = [stopRequested |-> {}, stoppedBy |-> {}, blamed |-> {}]
    /\ usePlayerIsPlaying = [k \in Keys |-> FALSE]
    /\ returned = << >>

\* A new Player, on a host that follows the load algorithm.
Init == Fresh /\ hostCancels = TRUE

\* A new Player, on a host whose load() leaves the queued events in place.
InitLate == Fresh /\ hostCancels = FALSE

NewAudio(k, node) ==
    [key |-> k, analyserNode |-> node,
     promise |-> "pending", paused |-> FALSE, src |-> TRUE, tasks |-> << >>]

\* Observations are forgotten with the elements they are about.
Prune(o, au) ==
    [stopRequested |-> o.stopRequested \cap DOMAIN au,
     stoppedBy |-> { p \in o.stoppedBy :
                       /\ p[1] \in DOMAIN au
                       /\ p[2] \in DOMAIN au
                       /\ au[p[2]].promise = "pending" },
     blamed |-> o.blamed \cap DOMAIN au]

\* usePlayer: handlePlay and handleEnded, the listeners of `play` and `ended`
\* of each sample, run on the events in the order of their dispatch
\* (handleProgress leaves the isPlaying state alone).
RECURSIVE HandleEvents(_, _)
HandleEvents(state, events) ==
    IF events = << >> THEN state
    ELSE LET e == Head(events)
             next == IF e[1] = "play" THEN [state EXCEPT ![e[2]] = TRUE]
                     ELSE IF e[1] = "ended" THEN [state EXCEPT ![e[2]] = FALSE]
                     ELSE state
         IN  HandleEvents(next, Tail(events))

\* What every step but a query does besides its own work: the listeners of
\* usePlayer run on the events it emits and no query returns anything.
Listen ==
    /\ usePlayerIsPlaying' = HandleEvents(usePlayerIsPlaying, emitted')
    /\ returned' = << >>
    /\ UNCHANGED hostCancels

\* The actions of the program itself record nothing.
Retain == observed' = Prune(observed, audio') /\ Listen

\* A stopAll that stops the first sample of the Map only.
StoppedByStopAllFirst(m) ==
    IF Len(m) = 0 THEN {} ELSE Range(m[1].audioElements)

\* this.playing.forEach(stop): the elements stopAll pauses.
StoppedByStopAll(m) == Listed(m)

\* A togglePlay that stops the other samples even when spamming.
StoppedByToggleIgnoresSpam(m, k, spam) ==
    IF MapHas(m, k) /\ ~spam THEN Range(MapGet(m, k).audioElements)
    ELSE { i \in StoppedByStopAll(m) : \A n \in 1..Len(m) :
             m[n].key = k => i \notin Range(m[n].audioElements) }

\* A togglePlay that never calls player.stopAll().
StoppedByToggleOwnOnly(m, k, spam) ==
    IF ~spam /\ MapHas(m, k) THEN Range(MapGet(m, k).audioElements) ELSE {}

\* The audio elements togglePlay pauses before it starts anything: none when
\* spamming, those of the sample itself when it is playing (player.stop(key)),
\* otherwise those of every sample (player.stopAll()).
StoppedByToggle(m, k, spam) ==
    IF spam THEN {}
    ELSE IF MapHas(m, k) THEN Range(MapGet(m, k).audioElements)
    ELSE StoppedByStopAll(m)

\* A togglePlay without the early return.
StartsInstanceAlways(m, k, spam) == TRUE

\* Whether togglePlay goes on to create an audio element (it returns early
\* when not spamming and the sample is playing).
StartsInstance(m, k, spam) == spam \/ ~MapHas(m, k)

\* togglePlay up to the await (or to the early return).
TogglePlayCall(k, spam) ==
    /\ dispatching = 0
    /\ LET stopped == PauseAll(audio, StoppedByToggle(playing, k, spam))
           fresh == getAnalyserNode(k) = 0
           node == IF fresh THEN nodes + 1 ELSE getAnalyserNode(k)
       IN  IF StartsInstance(playing, k, spam)
           THEN /\ created < MaxInst
                /\ audio' = stopped @@ ((created + 1) :> NewAudio(k, node))
                /\ nodes' = IF fresh THEN nodes + 1 ELSE nodes
                /\ created' = created + 1
           ELSE /\ audio' = stopped
                /\ UNCHANGED << nodes, created >>
    /\ emitted' = << >>
    /\ signal' = ""
    /\ UNCHANGED << playing, watchProgressRequestId, rafPending, dispatching >>

TogglePlay(k, spam) == TogglePlayCall(k, spam) /\ Retain

\* The same call, recording the playing elements it pauses before starting
\* element created + 1.
TogglePlayObserved(k, spam) ==
    /\ TogglePlayCall(k, spam)
    /\ observed' =
          IF StartsInstance(playing, k, spam)
          THEN Prune([observed EXCEPT !.stoppedBy = @ \cup
                        { << j, created + 1 >> :
                            j \in { e \in StoppedByToggle(playing, k, spam) :
                                      ~audio[e].paused } }], audio')
          ELSE Prune(observed, audio')
    /\ Listen

\* A watchProgressStart that requests a frame whether or not one is
\* outstanding.
WatchProgressStartAlways(id, pending) == [id |-> 1, pending |-> pending + 1]

\* A watchProgressStart that trusts the loop to be running.
WatchProgressStartNever(id, pending) == [id |-> id, pending |-> pending]

\* window.requestAnimationFrame(this.watchProgress) unless one is outstanding.
WatchProgressStart(id, pending) ==
    IF id = 0 THEN [id |-> 1, pending |-> pending + 1]
    ELSE [id |-> id, pending |-> pending]

\* "Emplace": the PlayingData of sample k, or a new one holding the call's
\* analyser node, with element i appended to its list.
Emplace(m, k, i, node) ==
    IF MapHas(m, k)
    THEN MapSet(m, k, Append(MapGet(m, k).audioElements, i),
                MapGet(m, k).analyserNode)
    ELSE MapSet(m, k, << i >>, node)

\* The host resolves the play promise of element i: togglePlay resumes after
\* the await in the same turn.
PlayResolved(i) ==
    /\ dispatching = 0
    /\ audio[i].promise = "pending"
    /\ audio[i].src
    /\ LET k == audio[i].key
           w == WatchProgressStart(watchProgressRequestId, rafPending)
       IN  /\ playing' = Emplace(playing, k, i, audio[i].analyserNode)
           /\ emitted' = << <<"play", k>> >>
           /\ watchProgressRequestId' = w.id
           /\ rafPending' = w.pending
           /\ signal' = "playResolved"
    /\ audio' = [audio EXCEPT ![i].promise = "resolved"]
    /\ UNCHANGED << created, nodes, dispatching >>
    /\ Retain

\* A togglePlay that swallows the rejection and carries on.
AfterRejectionEmplaces(m, k, i, node) == Emplace(m, k, i, node)

\* What the rest of togglePlay does to the Map when play() rejects: nothing,
\* the exception propagates out of the call at the await.
AfterRejection(m, k, i, node) == m

\* The host rejects the play promise of element i (decode error, blocked
\* autoplay): togglePlay throws at the await.
PlayRejectedCall(i) ==
    /\ dispatching = 0
    /\ audio[i].promise = "pending"
    /\ playing' = AfterRejection(playing, audio[i].key, i, audio[i].analyserNode)
    /\ audio' = Collect([audio EXCEPT ![i].promise = "rejected"], playing', 0)
    /\ emitted' = << >>
    /\ signal' = "playRejected"
    /\ UNCHANGED << created, nodes, watchProgressRequestId, rafPending,
                    dispatching >>

PlayRejected(i) == PlayRejectedCall(i) /\ Retain

PlayRejectedObserved(i) ==
    /\ PlayRejectedCall(i)
    /\ observed' = Prune([observed EXCEPT !.blamed = @ \cup
                              { p[1] : p \in { q \in observed.stoppedBy : q[2] = i } }],
                         audio')
    /\ Listen

\* Player.stop(key).
StopCall(k) ==
    /\ dispatching = 0
    /\ audio' = PauseAll(audio, IF isPlaying(k)
                                THEN Range(MapGet(playing, k).audioElements)
                                ELSE {})
    /\ emitted' = << >>
    /\ signal' = ""
    /\ UNCHANGED << playing, created, nodes, watchProgressRequestId,
                    rafPending, dispatching >>

Stop(k) == StopCall(k) /\ Retain

\* Player.stopAll().
StopAllCall ==
    /\ dispatching = 0
    /\ audio' = PauseAll(audio, StoppedByStopAll(playing))
    /\ emitted' = << >>
    /\ signal' = ""
    /\ UNCHANGED << playing, created, nodes, watchProgressRequestId,
                    rafPending, dispatching >>

StopAll == StopAllCall /\ Retain

\* The same calls, recording the elements that are still starting when their
\* sample is asked to stop.
Starting(k) == { i \in DOMAIN audio : audio[i].key = k /\ audio[i].promise = "pending" }

StopObserved(k) ==
    /\ StopCall(k)
    /\ observed' = Prune([observed EXCEPT !.stopRequested = @ \cup Starting(k)],
                         audio')
    /\ Listen

StopAllObserved ==
    /\ StopAllCall
    /\ observed' = Prune([observed EXCEPT !.stopRequested =
                                @ \cup UNION { Starting(k) : k \in Keys }],
                         audio')
    /\ Listen

\* A caller (usePlayer does so when it mounts and in its listeners) calls
\* isPlaying, getProgresses and getAnalyserNode for sample k.
Query(k) ==
    /\ dispatching = 0
    /\ returned' = [key |-> k,
                    isPlaying |-> isPlaying(k),
                    getProgresses |-> getProgresses(k),
                    getAnalyserNode |-> getAnalyserNode(k)]
    /\ emitted' = << >>
    /\ signal' = ""
    /\ observed' = Prune(observed, audio)
    /\ UNCHANGED << playing, audio, created, nodes, watchProgressRequestId,
                    rafPending, dispatching, hostCancels, usePlayerIsPlaying >>

\* The host pauses the playing element i on its own (media keys, audio
\* focus).
HostPause(i) ==
    /\ dispatching = 0
    /\ audio[i].promise = "resolved"
    /\ audio[i].src
    /\ ~audio[i].paused
    /\ audio' = [audio EXCEPT ![i] = HostPauseElement(@)]
    /\ emitted' = << >>
    /\ signal' = ""
    /\ UNCHANGED << playing, created, nodes, watchProgressRequestId,
                    rafPending, dispatching >>
    /\ Retain

\* Playback of element i reaches the end of the resource: the host queues
\* the task that fires `pause` (unless paused by then) and `ended`.
ReachEnd(i) ==
    /\ dispatching = 0
    /\ audio[i].promise = "resolved"
    /\ audio[i].src
    /\ ~audio[i].paused
    /\ "end" \notin Range(audio[i].tasks)
    /\ audio' = [audio EXCEPT ![i].tasks = Append(@, "end")]
    /\ emitted' = << >>
    /\ signal' = ""
    /\ UNCHANGED << playing, created, nodes, watchProgressRequestId,
                    rafPending, dispatching >>
    /\ Retain

\* The task queued by pause() runs: `pause` is fired at element i
\* (handleStop), then a still pending play promise is rejected.
PauseTask(i) ==
    /\ dispatching = 0
    /\ audio[i].tasks # << >>
    /\ Head(audio[i].tasks) = "pause"
    /\ LET popped == [audio EXCEPT ![i].tasks = Tail(@)]
           r == HandleStop(playing, popped, i, audio[i].key)
       IN  /\ playing' = r.playing
           /\ audio' = Collect([r.audio EXCEPT ![i].promise =
                                     IF @ = "pending" THEN "rejected" ELSE @],
                                r.playing, 0)
           /\ emitted' = r.emitted
    /\ signal' = "pauseEvent"
    /\ UNCHANGED << created, nodes, watchProgressRequestId, rafPending,
                    dispatching >>
    /\ Retain

\* The end-of-playback task of element i runs.  If the element is not paused
\* it becomes paused and `pause` is fired first, `ended` being still to come;
\* otherwise `ended` is fired alone.
EndTask(i) ==
    /\ dispatching = 0
    /\ audio[i].tasks # << >>
    /\ Head(audio[i].tasks) = "end"
    /\ LET first == ~audio[i].paused
           popped == [audio EXCEPT ![i].tasks = Tail(@), ![i].paused = TRUE]
           r == HandleStop(playing, popped, i, audio[i].key)
       IN  /\ playing' = r.playing
           /\ audio' = Collect(r.audio, r.playing, IF first THEN i ELSE 0)
           /\ emitted' = r.emitted
           /\ dispatching' = IF first THEN i ELSE 0
           /\ signal' = IF first THEN "pauseEvent" ELSE "endedEvent"
    /\ UNCHANGED << created, nodes, watchProgressRequestId, rafPending >>
    /\ Retain

\* `ended` is fired at element i right after the `pause` of the same task.
EndTaskEnded(i) ==
    /\ dispatching = i
    /\ LET r == HandleStop(playing, audio, i, audio[i].key)
       IN  /\ playing' = r.playing
           /\ audio' = Collect(r.audio, r.playing, 0)
           /\ emitted' = r.emitted
    /\ dispatching' = 0
    /\ signal' = "endedEvent"
    /\ UNCHANGED << created, nodes, watchProgressRequestId, rafPending >>
    /\ Retain

\* A host that queues `pause` and `ended` separately drops the `ended` once
\* handleStop has unloaded the element.
EndTaskCancelled(i) ==
    /\ dispatching = i
    /\ ~audio[i].src
    /\ audio' = Collect(audio, playing, 0)
    /\ dispatching' = 0
    /\ emitted' = << >>
    /\ signal' = "endedDropped"
    /\ UNCHANGED << playing, created, nodes, watchProgressRequestId, rafPending >>
    /\ Retain

\* A watchProgress that emits `progress` for every sample, playing or not.
WatchProgressForAllKeys ==
    /\ dispatching = 0
    /\ rafPending > 0
    /\ IF Len(playing) = 0
       THEN /\ watchProgressRequestId' = 0
            /\ rafPending' = rafPending - 1
            /\ emitted' = << >>
       ELSE /\ watchProgressRequestId' = 1
            /\ rafPending' = (rafPending - 1) + 1
            /\ emitted' = << <<"progress", "a">>, <<"progress", "b">> >>
    /\ signal' = "tick"
    /\ UNCHANGED << playing, audio, created, nodes, dispatching >>
    /\ Retain

\* A watchProgress that goes on rescheduling itself when nothing plays.
WatchProgressKeepsRunning ==
    /\ dispatching = 0
    /\ rafPending > 0
    /\ watchProgressRequestId' = 1
    /\ rafPending' = (rafPending - 1) + 1
    /\ emitted' = [n \in 1..Len(playing) |-> <<"progress", playing[n].key>>]
    /\ signal' = "tick"
    /\ UNCHANGED << playing, audio, created, nodes, dispatching >>
    /\ Retain

\* The host runs the animation frame callback: watchProgress.
WatchProgress ==
    /\ dispatching = 0
    /\ rafPending > 0
    /\ IF Len(playing) = 0
       THEN /\ watchProgressRequestId' = 0
            /\ rafPending' = rafPending - 1
            /\ emitted' = << >>
       ELSE /\ watchProgressRequestId' = 1
            /\ rafPending' = (rafPending - 1) + 1
            /\ emitted' = [n \in 1..Len(playing) |-> <<"progress", playing[n].key>>]
    /\ signal' = "tick"
    /\ UNCHANGED << playing, audio, created, nodes, dispatching >>
    /\ Retain

\* What the host does once playback has been asked for.
Host ==
    \/ \E i \in DOMAIN audio : PlayResolved(i)
    \/ \E i \in DOMAIN audio : HostPause(i)
    \/ \E i \in DOMAIN audio : ReachEnd(i)
    \/ \E i \in DOMAIN audio : PauseTask(i)
    \/ \E i \in DOMAIN audio : EndTask(i)
    \/ \E i \in DOMAIN audio : EndTaskEnded(i)
    \/ \E i \in DOMAIN audio : EndTaskCancelled(i)
    \/ WatchProgress

Next ==
    \/ \E k \in Keys, spam \in BOOLEAN : TogglePlay(k, spam)
    \/ \E k \in Keys : Stop(k)
    \/ StopAll
    \/ \E i \in DOMAIN audio : PlayRejected(i)
    \/ Host

Spec == Init /\ [][Next]_vars

\* The same program, the stops asked for while an element is starting being
\* recorded.
NextStops ==
    \/ \E k \in Keys, spam \in BOOLEAN : TogglePlay(k, spam)
    \/ \E k \in Keys : StopObserved(k)
    \/ StopAllObserved
    \/ \E i \in DOMAIN audio : PlayRejected(i)
    \/ Host

SpecStops == Init /\ [][NextStops]_vars

\* The same program, what each togglePlay call pauses and whether it is
\* rejected being recorded.
NextCalls ==
    \/ \E k \in Keys, spam \in BOOLEAN : TogglePlayObserved(k, spam)
    \/ \E k \in Keys : Stop(k)
    \/ StopAll
    \/ \E i \in DOMAIN audio : PlayRejectedObserved(i)
    \/ Host

SpecCalls == Init /\ [][NextCalls]_vars

\* The program when no caller ever passes spam: true.
NextNoSpam ==
    \/ \E k \in Keys : TogglePlay(k, FALSE)
    \/ \E k \in Keys : Stop(k)
    \/ StopAll
    \/ \E i \in DOMAIN audio : PlayRejected(i)
    \/ Host

SpecNoSpam == Init /\ [][NextNoSpam]_vars

\* The program on a host that still delivers the events queued before load().
SpecLate == InitLate /\ [][Next]_vars

\* The program on a host that runs the animation frame callbacks it was
\* asked for and finishes the event dispatch it has begun.
SpecFair ==
    /\ Spec
    /\ WF_vars(WatchProgress)
    /\ WF_vars(\E i \in DOMAIN audio : EndTaskEnded(i) \/ EndTaskCancelled(i))

\* The program with callers of the queries.
NextQueries ==
    \/ Next
    \/ \E k \in Keys : Query(k)

SpecQueries == Init /\ [][NextQueries]_vars

----------------------------------------------------------------------------
(* Properties                                                              *)

\* The instances of sample k: the audio elements of k whose playback has
\* begun and that have not been unloaded.
Instances(k) ==
    { i \in DOMAIN audio :
        audio[i].key = k /\ audio[i].promise = "resolved" /\ audio[i].src }

NoDuplicates(s) == \A x, y \in 1..Len(s) : s[x] = s[y] => x = y

\* C1: a key is in the Registry (isPlaying) if and only if it has an
\* instance, and its session lists exactly its instances; in particular no
\* session with an empty instance list is ever in the Registry, and no key
\* has two sessions.
C1_RegistryIffInstances ==
    /\ \A k \in Keys : isPlaying(k) <=> Instances(k) # {}
    /\ \A n \in 1..Len(playing) :
          /\ Len(playing[n].audioElements) > 0
          /\ NoDuplicates(playing[n].audioElements)
          /\ Range(playing[n].audioElements) = Instances(playing[n].key)
    /\ \A x, y \in 1..Len(playing) : playing[x].key = playing[y].key => x = y

\* A session has just been removed with its last instance while another
\* sample goes on playing two instances.
C1_Witness ==
    \E k, k2 \in Keys :
        /\ emitted = << <<"ended", k>> >>
        /\ ~isPlaying(k)
        /\ isPlaying(k2)
        /\ Len(getProgresses(k2)) = 2

\* The element has been paused and the task that fires its `pause` or
\* `ended` event, hence handleStop, is still to run.
TeardownPending(au, i) == au[i].paused /\ au[i].tasks # << >>

\* A stopped element cannot linger: a listed element that is paused has its
\* teardown pending.
StoppedIsPending ==
    \A i \in Listed(playing) : audio[i].paused => TeardownPending(audio, i)

\* The event of a listed element i of sample k is delivered: the element
\* leaves the session, and with the last one the session leaves the Registry
\* and `ended` is emitted for k, once.
TearsDown(i) ==
    LET k == audio[i].key IN
    /\ i \notin Listed(playing')
    /\ IF getProgresses(k) = << i >>
       THEN /\ playing' = MapDelete(playing, k)
            /\ emitted' = << <<"ended", k>> >>
       ELSE /\ MapHas(playing', k)
            /\ emitted' = << >>

DeliveryTearsDown ==
    \A i \in DOMAIN audio :
        (PauseTask(i) \/ EndTask(i)) /\ i \in Listed(playing) => TearsDown(i)

\* C2: a non-spam togglePlay of an idle sample pauses every element of every
\* playing sample and starts one element; each paused element is torn down
\* when its event is delivered, the last one of a sample removing the
\* session and emitting `ended`; when the play promise resolves the sample
\* is in the Registry, with that element as its one instance if it was idle.
C2_StartStopsOthers ==
    /\ [][\A k \in Keys :
            TogglePlay(k, FALSE) /\ ~isPlaying(k) =>
                /\ \A i \in Listed(playing) : TeardownPending(audio', i)
                /\ DOMAIN audio' = DOMAIN audio \cup {created'}
                /\ created' = created + 1
                /\ audio'[created'].key = k
                /\ audio'[created'].promise = "pending"]_vars
    /\ []StoppedIsPending
    /\ [][DeliveryTearsDown]_vars
    /\ [][\A i \in DOMAIN audio :
            PlayResolved(i) =>
                /\ MapHas(playing', audio[i].key)
                /\ ~isPlaying(audio[i].key) =>
                       MapGet(playing', audio[i].key).audioElements = << i >>]_vars

\* Sample b has just ended, stopped while the one instance of a, started
\* after it, plays on alone.
C2_Witness ==
    /\ emitted = << <<"ended", "b">> >>
    /\ signal = "pauseEvent"
    /\ Len(playing) = 1
    /\ playing[1].key = "a"
    /\ Len(playing[1].audioElements) = 1
    /\ ~audio[playing[1].audioElements[1]].paused
    /\ DOMAIN audio = Listed(playing)

\* C3: a non-spam togglePlay of a playing sample pauses every element of
\* that sample and nothing else and creates no element; the paused elements
\* are torn down when their events are delivered, the last one removing the
\* session, so that the sample is left idle.
C3_ToggleStops ==
    /\ [][\A k \in Keys :
            TogglePlay(k, FALSE) /\ isPlaying(k) =>
                /\ \A i \in Range(getProgresses(k)) : TeardownPending(audio', i)
                /\ created' = created
                /\ DOMAIN audio' = DOMAIN audio
                /\ \A j \in DOMAIN audio \ Range(getProgresses(k)) :
                      audio'[j] = audio[j]
                /\ playing' = playing]_vars
    /\ []StoppedIsPending
    /\ [][DeliveryTearsDown]_vars

\* Both instances of a sample have been stopped together and the second
\* event delivered has left the sample idle.
C3_Witness ==
    \E k \in Keys :
        /\ emitted = << <<"ended", k>> >>
        /\ signal = "pauseEvent"
        /\ ~isPlaying(k)
        /\ created = 2
        /\ audio = << >>

\* The listed elements that have not been stopped.
Sounding == { i \in Listed(playing) : ~audio[i].paused }

\* C4: when no call passes spam, at most one element is sounding at a time
\* (elements already stopped and awaiting their teardown aside).
C4_OneClipAudible == Cardinality(Sounding) <= 1

\* C5: every element of a session is connected to the session's analyser
\* node, the one getAnalyserNode returns.
C5_SharedTap ==
    \A n \in 1..Len(playing) :
        \A i \in Range(playing[n].audioElements) :
            audio[i].analyserNode = playing[n].analyserNode

InstancesOf(au, k) ==
    { i \in DOMAIN au : au[i].key = k /\ au[i].promise = "resolved" /\ au[i].src }

\* C6: `ended` is emitted for a key exactly in the steps that remove its
\* session from the Registry, once, alone, and only when no instance of the
\* key is left.
C6_EndedOncePerSession ==
    [][\A k \in Keys :
         /\ isPlaying(k) /\ ~MapHas(playing', k) => emitted' = << <<"ended", k>> >>
         /\ <<"ended", k>> \in Range(emitted') =>
               /\ emitted' = << <<"ended", k>> >>
               /\ isPlaying(k)
               /\ ~MapHas(playing', k)
               /\ InstancesOf(audio', k) = {}]_vars

\* A session of k has just ended while the next element of k is starting.
C6_Witness ==
    \E k \in Keys :
        /\ emitted = << <<"ended", k>> >>
        /\ ~isPlaying(k)
        /\ \E i \in DOMAIN audio : audio[i].key = k /\ audio[i].promise = "pending"

\* C7: a `pause` or `ended` event delivered for an element that handleStop
\* has already removed and unloaded changes neither the Map nor any list
\* and emits nothing.
C7_SecondSignalIsNoOp ==
    [][\A i \in DOMAIN audio :
         (PauseTask(i) \/ EndTask(i) \/ EndTaskEnded(i)) /\ ~audio[i].src =>
             playing' = playing /\ emitted' = << >>]_vars

\* Element i has been removed, a second event for it is still queued, and
\* the session of its sample has just been created anew by an element
\* created later.
C7_Witness ==
    \E i, j \in DOMAIN audio :
        /\ ~audio[i].src
        /\ audio[i].tasks # << >>
        /\ signal = "playResolved"
        /\ getProgresses(audio[i].key) = << j >>
        /\ j > i

\* C8: stopAll pauses every element of every playing sample and changes
\* nothing else; each is torn down when its event is delivered, the last
\* one of a sample removing the session and emitting the one `ended`.
C8_StopAllStopsAll ==
    /\ [][StopAll =>
            /\ \A i \in Listed(playing) : TeardownPending(audio', i)
            /\ playing' = playing
            /\ DOMAIN audio' = DOMAIN audio
            /\ \A j \in DOMAIN audio \ Listed(playing) : audio'[j] = audio[j]]_vars
    /\ []StoppedIsPending
    /\ [][DeliveryTearsDown]_vars

\* Two samples, one of them with two instances, have all been stopped.
C8_Witness ==
    /\ Len(playing) = 2
    /\ Cardinality(Listed(playing)) = 3
    /\ \A i \in Listed(playing) :
          audio[i].paused /\ audio[i].tasks = << "pause" >>

\* C9 as claimed: no event is emitted because of a call whose play() was
\* rejected, not even by the teardown of an element that the call paused.
C9_NoEventFromRejectedCall ==
    [][\A j \in DOMAIN audio :
         (PauseTask(j) \/ EndTask(j)) /\ j \in observed.blamed =>
             emitted' = << >>]_vars

\* C9: the rejection of play() changes nothing in the Map and emits
\* nothing, and only elements whose play() resolved are ever listed; the
\* elements the call paused are torn down all the same.
C9_RejectionStartsNothing ==
    /\ [][\A i \in DOMAIN audio :
            PlayRejectedObserved(i) =>
                /\ playing' = playing
                /\ emitted' = << >>
                /\ i \notin DOMAIN audio']_vars
    /\ [](\A i \in Listed(playing) : audio[i].promise = "resolved")
    /\ [][DeliveryTearsDown]_vars

\* A call has just been rejected; the last element of another sample, which
\* the call paused, is still to be torn down.
C9_Witness ==
    /\ signal = "playRejected"
    /\ \E j \in observed.blamed :
          /\ TeardownPending(audio, j)
          /\ getProgresses(audio[j].key) = << j >>

\* C10: an element whose sample was asked to stop while it was starting is
\* torn down once it has started.
C10_StopReachesStarting ==
    \A i \in observed.stopRequested :
        i \in Listed(playing) => TeardownPending(audio, i)

\* C11: getProgresses returns one entry per instance of the sample, none
\* when the sample is idle, getAnalyserNode returns null when it is idle,
\* and the queries change nothing of the Player or of its audio elements
\* and emit no event.
C11_QueriesReadOnly ==
    /\ [](returned # << >> =>
            LET k == returned.key IN
            /\ Len(returned.getProgresses) = Cardinality(Instances(k))
            /\ returned.isPlaying = isPlaying(k)
            /\ ~isPlaying(k) =>
                   /\ returned.getProgresses = << >>
                   /\ returned.getAnalyserNode = 0
                   /\ ~returned.isPlaying)
    /\ [][\A k \in Keys :
            Query(k) =>
                /\ UNCHANGED << playing, audio, created, nodes,
                                watchProgressRequestId, rafPending,
                                usePlayerIsPlaying >>
                /\ emitted' = << >>]_vars

\* The queries have been called for a sample with two instances, one of
\* which has been stopped and awaits its teardown, the other sample being
\* idle.
C11_Witness ==
    /\ returned # << >>
    /\ Len(returned.getProgresses) = 2
    /\ \E i \in Range(returned.getProgresses) : audio[i].paused
    /\ \E i \in Range(returned.getProgresses) : ~audio[i].paused
    /\ Len(playing) = 1

\* C12: stop(key) on an idle sample changes nothing and emits nothing;
\* stop(key) on a playing sample pauses its elements and only those;
\* a second stop(key) changes nothing any more (in any state, stopping
\* twice gives what stopping once gives), and the elements are torn down
\* once each, the last one emitting the one `ended`.
C12_StopIdempotent ==
    /\ [][\A k \in Keys :
            Stop(k) /\ ~isPlaying(k) =>
                /\ UNCHANGED << playing, audio, usePlayerIsPlaying,
                                watchProgressRequestId, rafPending >>
                /\ emitted' = << >>]_vars
    /\ [][\A k \in Keys :
            Stop(k) /\ isPlaying(k) =>
                /\ \A i \in Range(getProgresses(k)) : TeardownPending(audio', i)
                /\ \A j \in DOMAIN audio \ Range(getProgresses(k)) :
                      audio'[j] = audio[j]
                /\ playing' = playing
                /\ emitted' = << >>
                /\ PauseAll(audio', Range(getProgresses(k))) = audio']_vars
    /\ [](\A k \in Keys :
            LET S == Range(getProgresses(k))
                once == PauseAll(audio, S)
            IN  PauseAll(once, S) = once)
    /\ []StoppedIsPending
    /\ [][DeliveryTearsDown]_vars

\* A sample with two instances has been stopped: each element is paused
\* with the one `pause` event queued, while the other sample is idle.
C12_Witness ==
    /\ signal = ""
    /\ Len(playing) = 1
    /\ Len(playing[1].audioElements) = 2
    /\ \A i \in Listed(playing) :
          audio[i].paused /\ audio[i].tasks = << "pause" >>
    /\ DOMAIN audio = Listed(playing)

\* C13: a togglePlay with spam changes no existing audio element and no
\* session and creates one element for its sample; when the play promise of
\* an element resolves, the element is appended to the list of its sample
\* (a session being created for an idle sample), the elements already
\* listed keep their places, every other session is unchanged and no
\* element is paused or unloaded.
C13_SpamAddsOne ==
    /\ [][\A k \in Keys :
            TogglePlay(k, TRUE) =>
                /\ playing' = playing
                /\ emitted' = << >>
                /\ created' = created + 1
                /\ DOMAIN audio' = DOMAIN audio \cup {created'}
                /\ \A j \in DOMAIN audio : audio'[j] = audio[j]
                /\ audio'[created'].key = k
                /\ audio'[created'].promise = "pending"]_vars
    /\ [][\A i \in DOMAIN audio :
            PlayResolved(i) =>
                LET k == audio[i].key IN
                /\ MapHas(playing', k)
                /\ MapGet(playing', k).audioElements =
                       Append(getProgresses(k), i)
                /\ i \notin Listed(playing)
                /\ \A k2 \in Keys \ {k} :
                      /\ MapHas(playing', k2) = isPlaying(k2)
                      /\ isPlaying(k2) => MapGet(playing', k2) = MapGet(playing, k2)
                /\ \A j \in DOMAIN audio \ {i} : audio'[j] = audio[j]]_vars

\* A spammed element of a has just started next to an instance of a and an
\* instance of b, neither of which has been stopped.
C13_Witness ==
    /\ signal = "playResolved"
    /\ isPlaying("a") /\ isPlaying("b")
    /\ Len(getProgresses("a")) = 2
    /\ Len(getProgresses("b")) = 1
    /\ \A i \in Listed(playing) : ~audio[i].paused /\ audio[i].tasks = << >>
    /\ emitted = << <<"play", "a">> >>

\* C14: `progress` is emitted for a key only by a tick and only while the
\* key is in the Registry; an element enters a session only in the step
\* that emits `play` for its key, which is not a tick, and a tick changes no
\* session: every `progress` that reflects an instance comes after the
\* `play` of that instance.
C14_PlayBeforeProgress ==
    /\ [][\A k \in Keys :
            <<"progress", k>> \in Range(emitted') =>
                /\ signal' = "tick"
                /\ isPlaying(k)
                /\ MapHas(playing', k)]_vars
    /\ [][\A i \in DOMAIN audio' :
            i \in Listed(playing') \ Listed(playing) =>
                /\ emitted' = << <<"play", audio'[i].key>> >>
                /\ signal' = "playResolved"]_vars
    /\ [][WatchProgress => playing' = playing]_vars

\* A tick has emitted `progress` for a alone while an element of b, whose
\* `play` has not been emitted, is starting.
C14_Witness ==
    /\ signal = "tick"
    /\ emitted = << <<"progress", "a">> >>
    /\ ~isPlaying("b")
    /\ \E i \in DOMAIN audio : audio[i].key = "b" /\ audio[i].promise = "pending"

\* C15: whenever the Registry is not empty a tick is scheduled
\* (watchProgressRequestId is not null and the host holds the callback);
\* hence, the host running the callbacks, a key cannot stay playing without
\* `progress` being emitted for it again and again.
C15_LoopKeepsRunning ==
    /\ [](Len(playing) > 0 => watchProgressRequestId # 0 /\ rafPending > 0)
    /\ \A k \in Keys :
          []<>(~isPlaying(k) \/
                 (signal = "tick" /\ <<"progress", k>> \in Range(emitted)))

\* The first element is gone and the second has just started, creating the
\* only session, with the one tick scheduled.
C15_Witness ==
    /\ signal = "playResolved"
    /\ created = 2
    /\ DOMAIN audio = {2}
    /\ Listed(playing) = {2}
    /\ watchProgressRequestId # 0
    /\ rafPending = 1

\* C16: a tick that finds the Registry non-empty emits one `progress` for
\* each key in it, nothing else, and leaves one tick scheduled; a tick that
\* finds it empty emits nothing, sets watchProgressRequestId to null and
\* leaves no tick scheduled; a tick is scheduled anew only by a step that
\* leaves the Registry non-empty.
C16_TickEmitsOrStops ==
    /\ [][WatchProgress =>
            IF Len(playing) > 0
            THEN /\ Len(emitted') = Len(playing)
                 /\ \A n \in 1..Len(emitted') : emitted'[n][1] = "progress"
                 /\ \A k \in MapKeys(playing) :
                       Cardinality({ n \in 1..Len(emitted') :
                                       emitted'[n] = <<"progress", k>> }) = 1
                 /\ watchProgressRequestId' # 0
                 /\ rafPending' = 1
            ELSE /\ emitted' = << >>
                 /\ watchProgressRequestId' = 0
                 /\ rafPending' = 0]_vars
    /\ [][rafPending' > rafPending => Len(playing') > 0]_vars

\* After something has played, a tick has found the Registry empty and
\* stopped the loop.
C16_Witness ==
    /\ signal = "tick"
    /\ created > 0
    /\ Len(playing) = 0
    /\ emitted = << >>
    /\ watchProgressRequestId = 0
    /\ rafPending = 0

\* C17: the host never holds more than one tick callback;
\* watchProgressRequestId is null exactly when it holds none; a togglePlay
\* that completes while the loop is running schedules nothing.
C17_SingleLoop ==
    /\ [](rafPending <= 1)
    /\ [](watchProgressRequestId = 0 <=> rafPending = 0)
    /\ [][\A i \in DOMAIN audio :
            PlayResolved(i) /\ watchProgressRequestId # 0 =>
                rafPending' = rafPending
                /\ watchProgressRequestId' = watchProgressRequestId]_vars

\* The third togglePlay has completed, all three elements playing, with the
\* one tick scheduled.
C17_Witness ==
    /\ signal = "playResolved"
    /\ Cardinality(Listed(playing)) = 3
    /\ rafPending = 1

\* C18: the elements of every session are listed in the order of their
\* creation, which is the order of the togglePlay calls that created them.
C18_CreationOrder ==
    \A n \in 1..Len(playing) :
        \A x, y \in 1..Len(playing[n].audioElements) :
            x < y => playing[n].audioElements[x] < playing[n].audioElements[y]

\* C19: the isPlaying state that usePlayer keeps for a key, set by `play`
\* and cleared by `ended`, equals isPlaying(key) after every step; `ended`
\* is emitted for a key only when a `play` for it has been received since
\* the last `ended`, and `progress` only between a `play` and the next
\* `ended`.
C19_WellBracketed ==
    /\ [](\A k \in Keys : usePlayerIsPlaying[k] = isPlaying(k))
    /\ [][\A k \in Keys :
            <<"ended", k>> \in Range(emitted') =>
                usePlayerIsPlaying[k] /\ ~usePlayerIsPlaying'[k]]_vars
    /\ [][\A k \in Keys :
            <<"progress", k>> \in Range(emitted') =>
                usePlayerIsPlaying[k] /\ usePlayerIsPlaying'[k]]_vars

\* Sample a has just ended while b, started after it, plays on: the hook of
\* a shows idle, that of b playing.
C19_Witness ==
    /\ emitted = << <<"ended", "a">> >>
    /\ created = 3
    /\ Len(playing) = 1
    /\ Listed(playing) = {2}
    /\ audio[2].key = "b"
    /\ ~usePlayerIsPlaying["a"]
    /\ usePlayerIsPlaying["b"]

\* C20: the delivery of a `pause` or `ended` event of element i removes i
\* from the list of its sample and nothing else: the other elements of the
\* list keep their order, the sessions of the other samples and every other
\* audio element are unchanged; stop(key) and a togglePlay without spam of
\* a playing sample change no session and no element of another sample.
C20_TeardownRemovesOne ==
    /\ [][\A i \in DOMAIN audio :
            PauseTask(i) \/ EndTask(i) \/ EndTaskEnded(i) =>
                LET k == audio[i].key IN
                /\ (IF MapHas(playing', k)
                    THEN MapGet(playing', k).audioElements ELSE << >>) =
                       SelectSeq(getProgresses(k), LAMBDA other : other # i)
                /\ \A k2 \in Keys \ {k} :
                      /\ MapHas(playing', k2) = isPlaying(k2)
                      /\ isPlaying(k2) => MapGet(playing', k2) = MapGet(playing, k2)
                /\ Listed(playing) \ {i} \subseteq DOMAIN audio'
                /\ \A j \in DOMAIN audio' \ {i} : audio'[j] = audio[j]]_vars
    /\ [][\A k \in Keys :
            Stop(k) \/ (TogglePlay(k, FALSE) /\ isPlaying(k)) =>
                /\ playing' = playing
                /\ DOMAIN audio' = DOMAIN audio
                /\ \A j \in DOMAIN audio :
                      audio[j].key # k => audio'[j] = audio[j]]_vars

\* One of the two instances of a sample has just been torn down: the other
\* instance and the instance of the other sample play on.
C20_Witness ==
    /\ signal = "pauseEvent"
    /\ dispatching = 0
    /\ emitted = << >>
    /\ created = 3
    /\ Len(playing) = 2
    /\ Cardinality(Listed(playing)) = 2
    /\ DOMAIN audio = Listed(playing)
    /\ \A i \in Listed(playing) : ~audio[i].paused
====
